---- MODULE Spec2Model ----
(***************************************************************************)
(* Model of the agenda reduction engine of todo-cli (src/src/index.js):    *)
(* the reducer over the action vocabulary and the AgendaState wrapper that *)
(* applies one action at a time.                                           *)
(*                                                                         *)
(* A JavaScript object is a function from its own keys to values; a key    *)
(* that is not in the DOMAIN reads as `undefined`.  `null` is the value    *)
(* Null.  Object spread {...a, ...b} is Spread(a, b).                      *)
(***************************************************************************)
EXTENDS Integers, Sequences, FiniteSets, TLC

(***************************************************************************)
(* Bounds of the model.                                                    *)
(***************************************************************************)
\* number of actions handed to one AgendaState
MaxSteps == 3

(***************************************************************************)
(* Values.                                                                 *)
(***************************************************************************)
\* JavaScript null
Null == [null |-> TRUE]

\* the empty object {} (also what spreading `undefined` contributes)
EmptyObj == [k \in {} |-> TRUE]

\* object spread: {...a, ...b}; keys of b override keys of a
Spread(a, b) ==
  [k \in (DOMAIN a) \cup (DOMAIN b) |-> IF k \in DOMAIN b THEN b[k] ELSE a[k]]

\* a property read obj[key]: <<v>> when key is an own key, <<>> (undefined)
\* when it is not
Get(obj, key) == IF key \in DOMAIN obj THEN <<obj[key]>> ELSE <<>>

\* JavaScript undefined, as the result of a property read
Undefined == <<>>

\* `${v}` in a template literal: undefined is printed as "undefined"
TemplateStr(v) == IF v = Undefined THEN "undefined" ELSE v[1]

\* {...obj} followed by `delete copy[key]`
DeleteKey(obj, key) == [k \in (DOMAIN obj) \ {key} |-> obj[k]]

\* Array.prototype.concat([x])
Concat(arr, x) == Append(arr, x)

\* Array.prototype.filter(e => e !== x)
RECURSIVE FilterNot(_, _)
FilterNot(arr, x) ==
  IF arr = <<>> THEN <<>>
  ELSE IF Head(arr) # x THEN <<Head(arr)>> \o FilterNot(Tail(arr), x)
       ELSE FilterNot(Tail(arr), x)

(***************************************************************************)
(* Status (index.js:17-22) and the action kinds (index.js:139-154).        *)
(***************************************************************************)
READY == "ready"
IN_PROGRESS == "in-progress"
BLOCKED == "blocked"
COMPLETE == "complete"

Status == {READY, IN_PROGRESS, BLOCKED, COMPLETE}

TODO_CREATE == "agenda/todo/create"
TODO_SET_TITLE == "agenda/todo/set/title"
TODO_SET_STATUS == "agenda/todo/set/status"
TODO_SET_ESTIMATE == "agenda/todo/set/estimate"
TODO_SET_DEADLINE == "agenda/todo/set/deadline"
TODO_ADD_DEPENDENT == "agenda/todo/dependent/add"
TODO_REMOVE_DEPENDENT == "agenda/todo/dependent/remove"
TODO_DESTROY == "agenda/todo/destroy"

EVENT_CREATE == "agenda/event/create"
EVENT_SET_TITLE == "agenda/event/set/title"
EVENT_SET_START == "agenda/event/set/start"
EVENT_SET_DURATION == "agenda/event/set/duration"
EVENT_ADD_CAUSE == "agenda/event/cause/add"
EVENT_REMOVE_CAUSE == "agenda/event/cause/remove"
EVENT_DESTROY == "agenda/event/destroy"

TodoKinds ==
  {TODO_CREATE, TODO_SET_TITLE, TODO_SET_STATUS, TODO_SET_ESTIMATE,
   TODO_SET_DEADLINE, TODO_ADD_DEPENDENT, TODO_REMOVE_DEPENDENT, TODO_DESTROY}

EventKinds ==
  {EVENT_CREATE, EVENT_SET_TITLE, EVENT_SET_START, EVENT_SET_DURATION,
   EVENT_ADD_CAUSE, EVENT_REMOVE_CAUSE, EVENT_DESTROY}

\* the mutating Todo kinds: everything except create and destroy
TodoSetKinds ==
  {TODO_SET_TITLE, TODO_SET_STATUS, TODO_SET_ESTIMATE, TODO_SET_DEADLINE}

TodoDependentKinds == {TODO_ADD_DEPENDENT, TODO_REMOVE_DEPENDENT}

(***************************************************************************)
(* STATUS_DISPLAY (index.js:24-29), the Todo class (index.js:46-92) and    *)
(* prettyPrintTodo (index.js:94-96).  The three glyphs outside ASCII are   *)
(* written by their code points.                                           *)
(***************************************************************************)
STATUS_DISPLAY ==
  (READY :> " ") @@ (IN_PROGRESS :> "U+2026") @@ (BLOCKED :> "U+231B")
    @@ (COMPLETE :> "U+2713")

\* STATUS_DISPLAY[status], for a status that may itself be undefined
StatusBox(status) ==
  IF status = Undefined THEN Undefined ELSE Get(STATUS_DISPLAY, status[1])

\* the identifiers uuid.v1() can generate
UUIDs == {"uuid-1", "uuid-2"}

\* new Todo(args), uuid being the value of uuid.v1(); a default applies
\* to a field that args leaves undefined
Todo(args, uuid) ==
  [_id |-> IF "_id" \in DOMAIN args THEN args._id ELSE uuid,
   title |-> IF "title" \in DOMAIN args THEN args.title ELSE "",
   status |-> IF "status" \in DOMAIN args THEN args.status ELSE READY,
   estimate |-> IF "estimate" \in DOMAIN args THEN args.estimate ELSE Null,
   deadline |-> IF "deadline" \in DOMAIN args THEN args.deadline ELSE Null,
   dependentIDs |->
     IF "dependentIDs" \in DOMAIN args THEN args.dependentIDs ELSE <<>>]

\* Todo.toJSON(): every value is the result of a property read of `this`
toJSON(this) ==
  [_id |-> Get(this, "id"),
   title |-> Get(this, "title"),
   status |-> Get(this, "status"),
   estimate |-> Get(this, "estimate"),
   deadline |-> Get(this, "deadline"),
   dependentIDs |-> Get(this, "dependentIDs")]

\* Todo.toPrettyString(): the two interpolated parts of the template
toPrettyString(this) ==
  <<TemplateStr(StatusBox(Get(this, "status"))),
    TemplateStr(Get(this, "title"))>>

\* prettyPrintTodo(todo): the three interpolated parts of the template
prettyPrintTodo(todo) ==
  <<TemplateStr(Get(todo, "_id")),
    TemplateStr(StatusBox(Get(todo, "status"))),
    TemplateStr(Get(todo, "title"))>>

(***************************************************************************)
(* The inputs: the action records a parsed log can hold.                   *)
(***************************************************************************)
TodoIDs == {"t1", "t2"}
EventIDs == {"e1"}
Titles == {"a", "b"}
StatusValues == Status \cup {"bogus"}
Estimates ==
  {Null, [lowEstimate |-> "30", highEstimate |-> "60"], [lowEstimate |-> "5"]}
Deadlines == {Null, [date |-> "2016-03-01"]}
Starts == {[date |-> "2016-03-02"]}
Durations == {"3600000"}
Causes == {[type |-> "Todo", value |-> "t1"]}
UnknownKinds == {"agenda/todo/archive", "bogus"}

\* the `todo` payloads of a create action; each field has the type the
\* Todo constructor declares for it (dependentIDs is an array)
TodoPayloads ==
  { [title |-> "a"],
    [title |-> "b"],
    [title |-> "a", _id |-> "zz"],
    [title |-> "b", status |-> COMPLETE],
    [dependentIDs |-> <<"t1", "t2", "t1">>],
    [title |-> "a", estimate |-> [lowEstimate |-> "5"],
     deadline |-> [date |-> "2016-03-01"]] }

(***************************************************************************)
(* reducer (index.js:161-245), one operator per case of the switch.        *)
(***************************************************************************)
defaultState == [todos |-> EmptyObj, events |-> EmptyObj]

\* state.todos[todoId]; spreading it when undefined contributes nothing
TodoOrEmpty(state, todoId) ==
  IF todoId \in DOMAIN state.todos THEN state.todos[todoId] ELSE EmptyObj

\* the same without the spread of state.todos: {...state, todos: {[todoId]: todo}}
WithTodo_NoSpread(state, todoId, todo) ==
  Spread(state, [todos |-> [k \in {todoId} |-> todo]])

\* {...state, todos: {...state.todos, [todoId]: todo}}
WithTodo(state, todoId, todo) ==
  Spread(state,
         [todos |-> Spread(state.todos, [k \in {todoId} |-> todo])])

\* action.todo, or {} when the action carries no payload
PayloadOf(action) ==
  IF "todo" \in DOMAIN action THEN action.todo ELSE EmptyObj

\* a create that merges into the record already stored under todoId
TodoCreate_Merge(state, action) ==
  WithTodo(state, action.todoId,
           Spread(Spread(Spread(TodoOrEmpty(state, action.todoId),
                                [status |-> READY, dependentIDs |-> <<>>]),
                         PayloadOf(action)),
                  [_id |-> action.todoId]))

TodoCreate(state, action) ==
  WithTodo(state, action.todoId,
           Spread(Spread([status |-> READY, dependentIDs |-> <<>>],
                         PayloadOf(action)),
                  [_id |-> action.todoId]))

\* a set/title that is a no-op when todoId is not a key of todos
TodoSetTitle_Guarded(state, action) ==
  IF action.todoId \in DOMAIN state.todos
  THEN WithTodo(state, action.todoId,
                Spread(state.todos[action.todoId], [title |-> action.title]))
  ELSE state

TodoSetTitle(state, action) ==
  WithTodo(state, action.todoId,
           Spread(TodoOrEmpty(state, action.todoId), [title |-> action.title]))

\* a set/status that ignores a value outside Status
TodoSetStatus_Validated(state, action) ==
  IF action.status \in Status
  THEN WithTodo(state, action.todoId,
                Spread(TodoOrEmpty(state, action.todoId),
                       [status |-> action.status]))
  ELSE state

TodoSetStatus(state, action) ==
  WithTodo(state, action.todoId,
           Spread(TodoOrEmpty(state, action.todoId), [status |-> action.status]))

TodoSetEstimate(state, action) ==
  WithTodo(state, action.todoId,
           Spread(TodoOrEmpty(state, action.todoId),
                  [estimate |-> action.estimate]))

TodoSetDeadline(state, action) ==
  WithTodo(state, action.todoId,
           Spread(TodoOrEmpty(state, action.todoId),
                  [deadline |-> action.deadline]))

TodoAddDependent(state, action) ==
  WithTodo(state, action.todoId,
           Spread(TodoOrEmpty(state, action.todoId),
                  [dependentIDs |->
                     Concat(state.todos[action.todoId].dependentIDs,
                            action.dependentId)]))

\* a remove whose filter predicate is inverted (x === action.dependentId)
TodoRemoveDependent_Inverted(state, action) ==
  WithTodo(state, action.todoId,
           Spread(TodoOrEmpty(state, action.todoId),
                  [dependentIDs |->
                     SelectSeq(state.todos[action.todoId].dependentIDs,
                               LAMBDA x : x = action.dependentId)]))

TodoRemoveDependent(state, action) ==
  WithTodo(state, action.todoId,
           Spread(TodoOrEmpty(state, action.todoId),
                  [dependentIDs |->
                     FilterNot(state.todos[action.todoId].dependentIDs,
                               action.dependentId)]))

TodoDestroy(state, action) ==
  Spread(state, [todos |-> DeleteKey(state.todos, action.todoId)])

\* a default branch that falls back to the empty snapshot
DefaultCase_Reset(state, action) == defaultState

\* default: return state
DefaultCase(state, action) == state

\* the TypeError of index.js:222 and index.js:232: state.todos[todoId] is
\* undefined, or it is a record without a dependentIDs array
Throws(state, action) ==
  /\ action.type \in TodoDependentKinds
  /\ \/ action.todoId \notin DOMAIN state.todos
     \/ "dependentIDs" \notin DOMAIN state.todos[action.todoId]

\* the value reducer returns when it does not throw
reducer(state, action) ==
  CASE action.type = TODO_CREATE -> TodoCreate(state, action)
    [] action.type = TODO_SET_TITLE -> TodoSetTitle(state, action)
    [] action.type = TODO_SET_STATUS -> TodoSetStatus(state, action)
    [] action.type = TODO_SET_ESTIMATE -> TodoSetEstimate(state, action)
    [] action.type = TODO_SET_DEADLINE -> TodoSetDeadline(state, action)
    [] action.type = TODO_ADD_DEPENDENT -> TodoAddDependent(state, action)
    [] action.type = TODO_REMOVE_DEPENDENT -> TodoRemoveDependent(state, action)
    [] action.type = TODO_DESTROY -> TodoDestroy(state, action)
    [] OTHER -> DefaultCase(state, action)

(***************************************************************************)
(* AgendaState (index.js:247-266) and the main routine (index.js:268-294). *)
(* The records of one parsed log are replayed, in order, both through the  *)
(* forEach of the main routine and through an AgendaState.                 *)
(***************************************************************************)
VARIABLES
  todos,       \* this.todos
  events,      \* this.events
  threw,       \* whether the last handleAction raised an error
  last,        \* the action record of the last handleAction
  prevTodos,   \* this.todos before the last handleAction
  prevEvents,  \* this.events before the last handleAction
  nsteps,      \* number of handleAction calls so far
  resolved,    \* the last resolveTodo / resolveEvent call and its result
  loadState,   \* `state` of the main routine (index.js:277)
  items,       \* `items` of the main routine (index.js:279)
  pc           \* the main routine: "folding", "done" or "failed"

vars ==
  <<todos, events, threw, last, prevTodos, prevEvents, nsteps, resolved,
    loadState, items, pc>>

\* `resolved` when no lookup was made since the last action
NoLookup == [call |-> "<none>"]

\* `let state;`: the record that stands for an undefined `state`
UndefinedState == [undefined |-> TRUE]

\* `last` before any action was handled
NoAction == [type |-> "<none>"]

\* constructor()
Init ==
  /\ todos = EmptyObj
  /\ events = EmptyObj
  /\ threw = FALSE
  /\ last = NoAction
  /\ prevTodos = EmptyObj
  /\ prevEvents = EmptyObj
  /\ nsteps = 0
  /\ resolved = NoLookup
  /\ loadState = UndefinedState
  /\ items = EmptyObj
  /\ pc = "folding"

\* a handleAction that empties this.todos before it calls reducer
handleAction_ClearsFirst(action) ==
  /\ nsteps < MaxSteps
  /\ nsteps' = nsteps + 1
  /\ last' = action
  /\ prevTodos' = todos
  /\ prevEvents' = events
  /\ IF Throws([todos |-> todos, events |-> events], action)
     THEN /\ threw' = TRUE
          /\ todos' = EmptyObj
          /\ UNCHANGED events
     ELSE /\ threw' = FALSE
          /\ todos' = reducer([todos |-> todos, events |-> events], action).todos
          /\ events' = reducer([todos |-> todos, events |-> events], action).events

\* a handleAction that reduces the default state instead of `this`
handleAction_FromDefault(action) ==
  /\ nsteps < MaxSteps
  /\ nsteps' = nsteps + 1
  /\ last' = action
  /\ prevTodos' = todos
  /\ prevEvents' = events
  /\ IF Throws(defaultState, action)
     THEN /\ threw' = TRUE
          /\ UNCHANGED <<todos, events>>
     ELSE /\ threw' = FALSE
          /\ todos' = reducer(defaultState, action).todos
          /\ events' = reducer(defaultState, action).events

\* *handleAction(action)
handleAction(action) ==
  /\ nsteps < MaxSteps
  /\ nsteps' = nsteps + 1
  /\ last' = action
  /\ prevTodos' = todos
  /\ prevEvents' = events
  /\ IF Throws([todos |-> todos, events |-> events], action)
     THEN /\ threw' = TRUE
          /\ UNCHANGED <<todos, events>>
     ELSE /\ threw' = FALSE
          /\ todos' = reducer([todos |-> todos, events |-> events], action).todos
          /\ events' = reducer([todos |-> todos, events |-> events], action).events

\* a resolveTodo that reads this.events
resolveTodo_ReadsEvents(todoID) ==
  /\ resolved' = [call |-> "resolveTodo", id |-> todoID,
                  result |-> Get(events, todoID)]
  /\ UNCHANGED <<todos, events, threw, last, prevTodos, prevEvents, nsteps,
                 loadState, items, pc>>

\* *resolveTodo(todoID)
resolveTodo(todoID) ==
  /\ resolved' = [call |-> "resolveTodo", id |-> todoID,
                  result |-> Get(todos, todoID)]
  /\ UNCHANGED <<todos, events, threw, last, prevTodos, prevEvents, nsteps,
                 loadState, items, pc>>

\* *resolveEvent(eventID)
resolveEvent(eventID) ==
  /\ resolved' = [call |-> "resolveEvent", id |-> eventID,
                  result |-> Get(events, eventID)]
  /\ UNCHANGED <<todos, events, threw, last, prevTodos, prevEvents, nsteps,
                 loadState, items, pc>>

\* reducer(state = defaultState, action): the default parameter value
StateOrDefault(s) == IF s = UndefinedState THEN defaultState ELSE s

\* events.forEach(event => state = reducer(state, event)), one iteration; an
\* error of reducer ends the routine in the catch of index.js:292
forEachStep(event) ==
  IF pc = "folding"
  THEN IF Throws(StateOrDefault(loadState), event)
       THEN /\ pc' = "failed"
            /\ UNCHANGED <<loadState, items>>
       ELSE /\ loadState' = reducer(StateOrDefault(loadState), event)
            /\ UNCHANGED <<items, pc>>
  ELSE UNCHANGED <<loadState, items, pc>>

\* the end of the log: items = Object.keys(state.todos).map(...); reading
\* state.todos raises a TypeError when state is undefined
RenderItems ==
  /\ pc = "folding"
  /\ IF loadState = UndefinedState
     THEN /\ pc' = "failed"
          /\ UNCHANGED items
     ELSE /\ pc' = "done"
          /\ items' = [id \in DOMAIN loadState.todos |->
                         prettyPrintTodo(loadState.todos[id])]
  /\ UNCHANGED <<todos, events, threw, last, prevTodos, prevEvents, nsteps,
                 resolved, loadState>>

\* the next record of the log, given to the forEach and to the AgendaState
Replay(action) ==
  /\ pc # "done"
  /\ handleAction(action)
  /\ forEachStep(action)
  /\ resolved' = NoLookup

ResolveTodo == \E id \in TodoIDs : resolveTodo(id)

ResolveEvent == \E id \in EventIDs : resolveEvent(id)

\* the agenda/todo/create records a log can hold, without and with a payload
TodoCreateActions ==
  {[type |-> TODO_CREATE, todoId |-> id] : id \in TodoIDs}
  \cup {[type |-> TODO_CREATE, todoId |-> id, todo |-> p] :
     id \in TodoIDs, p \in TodoPayloads}

HandleTodoCreate ==
  \E a \in TodoCreateActions : Replay(a)

\* the agenda/todo/set/title records a log can hold
TodoSetTitleActions ==
  {[type |-> TODO_SET_TITLE, todoId |-> id, title |-> t] :
     id \in TodoIDs, t \in Titles}

HandleTodoSetTitle ==
  \E a \in TodoSetTitleActions : Replay(a)

\* the agenda/todo/set/status records a log can hold
TodoSetStatusActions ==
  {[type |-> TODO_SET_STATUS, todoId |-> id, status |-> s] :
     id \in TodoIDs, s \in StatusValues}

HandleTodoSetStatus ==
  \E a \in TodoSetStatusActions : Replay(a)

\* the agenda/todo/set/estimate records a log can hold
TodoSetEstimateActions ==
  {[type |-> TODO_SET_ESTIMATE, todoId |-> id, estimate |-> e] :
     id \in TodoIDs, e \in Estimates}

HandleTodoSetEstimate ==
  \E a \in TodoSetEstimateActions : Replay(a)

\* the agenda/todo/set/deadline records a log can hold
TodoSetDeadlineActions ==
  {[type |-> TODO_SET_DEADLINE, todoId |-> id, deadline |-> d] :
     id \in TodoIDs, d \in Deadlines}

HandleTodoSetDeadline ==
  \E a \in TodoSetDeadlineActions : Replay(a)

\* the agenda/todo/dependent/add records a log can hold
TodoAddDependentActions ==
  {[type |-> TODO_ADD_DEPENDENT, todoId |-> id, dependentId |-> dep] :
     id \in TodoIDs, dep \in TodoIDs}

HandleTodoAddDependent ==
  \E a \in TodoAddDependentActions : Replay(a)

\* the agenda/todo/dependent/remove records a log can hold
TodoRemoveDependentActions ==
  {[type |-> TODO_REMOVE_DEPENDENT, todoId |-> id, dependentId |-> dep] :
     id \in TodoIDs, dep \in TodoIDs}

HandleTodoRemoveDependent ==
  \E a \in TodoRemoveDependentActions : Replay(a)

\* the agenda/todo/destroy records a log can hold
TodoDestroyActions ==
  {[type |-> TODO_DESTROY, todoId |-> id] : id \in TodoIDs}

HandleTodoDestroy ==
  \E a \in TodoDestroyActions : Replay(a)

\* the event actions a log can hold
EventActions ==
  {[type |-> EVENT_CREATE, eventId |-> e, event |-> [title |-> t]] :
     e \in EventIDs, t \in Titles}
  \cup {[type |-> EVENT_SET_TITLE, eventId |-> e, title |-> t] :
     e \in EventIDs, t \in Titles}
  \cup {[type |-> EVENT_SET_START, eventId |-> e, start |-> s] :
     e \in EventIDs, s \in Starts}
  \cup {[type |-> EVENT_SET_DURATION, eventId |-> e, duration |-> d] :
     e \in EventIDs, d \in Durations}
  \cup {[type |-> EVENT_ADD_CAUSE, eventId |-> e, cause |-> c] :
     e \in EventIDs, c \in Causes}
  \cup {[type |-> EVENT_REMOVE_CAUSE, eventId |-> e, cause |-> c] :
     e \in EventIDs, c \in Causes}
  \cup {[type |-> EVENT_DESTROY, eventId |-> e] : e \in EventIDs}

HandleEventAction ==
  \E a \in EventActions : Replay(a)

\* records of a kind the switch has no case for
UnknownActions ==
  {[type |-> k, todoId |-> id, title |-> "a"] :
     k \in UnknownKinds, id \in TodoIDs}

HandleUnknownAction ==
  \E a \in UnknownActions : Replay(a)

\* one more record of the log is replayed
Next ==
  \/ HandleTodoCreate
  \/ HandleTodoSetTitle
  \/ HandleTodoSetStatus
  \/ HandleTodoSetEstimate
  \/ HandleTodoSetDeadline
  \/ HandleTodoAddDependent
  \/ HandleTodoRemoveDependent
  \/ HandleTodoDestroy
  \/ HandleEventAction
  \/ HandleUnknownAction

Spec == Init /\ [][Next]_vars

\* the AgendaState is also queried between the actions
LookupNext ==
  \/ Next
  \/ ResolveTodo
  \/ ResolveEvent

LookupSpec == Init /\ [][LookupNext]_vars

\* the main routine: the whole log is folded, then the items are rendered
LoadNext ==
  \/ RenderItems
  \/ Next

LoadSpec == Init /\ [][LoadNext]_vars

(***************************************************************************)
(* Helpers of the properties.                                              *)
(***************************************************************************)
\* the snapshot held before and after the last handleAction
Unchanged == todos = prevTodos /\ events = prevEvents

\* a field of a record that may be missing: <<present, value>>
DepsOf(todo) ==
  IF "dependentIDs" \in DOMAIN todo
  THEN <<TRUE, todo.dependentIDs>>
  ELSE <<FALSE, <<>>>>

Range(seq) == {seq[i] : i \in DOMAIN seq}

\* the entries of seq that differ from x, in their order
RECURSIVE Without(_, _)
Without(seq, x) ==
  IF Len(seq) = 0 THEN <<>>
  ELSE LET rest == Without(SubSeq(seq, 1, Len(seq) - 1), x)
           e == seq[Len(seq)]
       IN IF e = x THEN rest ELSE Append(rest, e)

TodoFields == {"title", "status", "estimate", "deadline", "dependentIDs"}

(***************************************************************************)
(* C1: a SetTitle, SetStatus, SetEstimate, SetDeadline, AddDependent or    *)
(* RemoveDependent whose todoId is not a key of todos leaves the snapshot  *)
(* as it was: no entry for todoId is added.                                *)
(***************************************************************************)
C1_MissingTargetIsNoOp ==
  (/\ last.type \in TodoSetKinds \cup TodoDependentKinds
   /\ last.todoId \notin DOMAIN prevTodos)
  => Unchanged

(***************************************************************************)
(* C2: the fold is total: no action record, of any kind and whatever its   *)
(* target, makes reducer raise an error.                                   *)
(***************************************************************************)
C2_FoldIsTotal == ~threw

(***************************************************************************)
(* C3: in every reachable snapshot every key k of todos maps to a record   *)
(* whose stored id is k.                                                   *)
(***************************************************************************)
C3_KeyEqualsStoredId ==
  \A k \in DOMAIN todos :
    /\ "_id" \in DOMAIN todos[k]
    /\ todos[k]._id = k

(***************************************************************************)
(* C4: an action whose type is none of the defined action kinds leaves     *)
(* todos and events as they were, and raises nothing.                      *)
(***************************************************************************)
C4_UnknownKindIsIdentity ==
  (/\ last # NoAction
   /\ last.type \notin TodoKinds \cup EventKinds)
  => (Unchanged /\ ~threw)

\* an unrecognized action was handled on a snapshot that holds a todo
C4_Witness ==
  /\ last.type \in UnknownKinds
  /\ DOMAIN prevTodos # {}
  /\ todos = prevTodos

(***************************************************************************)
(* C5: the event actions change the events map the way the todo actions    *)
(* change todos: create inserts events[E] with id E, the set actions       *)
(* replace one field, add/remove cause append to and filter causes, and    *)
(* destroy deletes events[E].                                              *)
(***************************************************************************)
C5_EventActionsChangeEvents ==
  /\ last.type = EVENT_CREATE =>
       /\ last.eventId \in DOMAIN events
       /\ "_id" \in DOMAIN events[last.eventId]
       /\ events[last.eventId]._id = last.eventId
  /\ (last.type = EVENT_SET_TITLE /\ last.eventId \in DOMAIN prevEvents) =>
       /\ last.eventId \in DOMAIN events
       /\ "title" \in DOMAIN events[last.eventId]
       /\ events[last.eventId].title = last.title
  /\ (last.type = EVENT_SET_START /\ last.eventId \in DOMAIN prevEvents) =>
       /\ last.eventId \in DOMAIN events
       /\ "start" \in DOMAIN events[last.eventId]
       /\ events[last.eventId].start = last.start
  /\ (last.type = EVENT_SET_DURATION /\ last.eventId \in DOMAIN prevEvents) =>
       /\ last.eventId \in DOMAIN events
       /\ "duration" \in DOMAIN events[last.eventId]
       /\ events[last.eventId].duration = last.duration
  /\ (/\ last.type = EVENT_ADD_CAUSE
      /\ last.eventId \in DOMAIN prevEvents
      /\ "causes" \in DOMAIN prevEvents[last.eventId]) =>
       /\ last.eventId \in DOMAIN events
       /\ "causes" \in DOMAIN events[last.eventId]
       /\ events[last.eventId].causes =
            Append(prevEvents[last.eventId].causes, last.cause)
  /\ (/\ last.type = EVENT_REMOVE_CAUSE
      /\ last.eventId \in DOMAIN prevEvents
      /\ "causes" \in DOMAIN prevEvents[last.eventId]) =>
       /\ last.eventId \in DOMAIN events
       /\ "causes" \in DOMAIN events[last.eventId]
       /\ events[last.eventId].causes =
            Without(prevEvents[last.eventId].causes, last.cause)
  /\ last.type = EVENT_DESTROY => last.eventId \notin DOMAIN events

(***************************************************************************)
(* C6: after a create with todoId X, on a snapshot with or without X,      *)
(* todos[X] is the defaults {status: ready, dependentIDs: []} overridden   *)
(* by the supplied fields, its id is X whatever id the payload carries,    *)
(* and no field of an earlier todos[X] survives.                           *)
(***************************************************************************)
C6_CreateOverwrites ==
  last.type = TODO_CREATE =>
    LET X == last.todoId
        supplied == IF "todo" \in DOMAIN last THEN last.todo ELSE EmptyObj
    IN /\ ~threw
       /\ X \in DOMAIN todos
       /\ DOMAIN todos[X] =
            {"_id", "status", "dependentIDs"} \cup (DOMAIN supplied)
       /\ todos[X]._id = X
       /\ \A f \in TodoFields :
            IF f \in DOMAIN supplied THEN todos[X][f] = supplied[f]
            ELSE /\ f = "status" => todos[X].status = READY
                 /\ f = "dependentIDs" => todos[X].dependentIDs = <<>>

\* X is created again, with a payload that carries another id and no
\* estimate, over a record that had an estimate
C6_Witness ==
  /\ last.type = TODO_CREATE
  /\ "todo" \in DOMAIN last
  /\ "_id" \in DOMAIN last.todo
  /\ last.todo._id # last.todoId
  /\ last.todoId \in DOMAIN prevTodos
  /\ "estimate" \in DOMAIN prevTodos[last.todoId]
  /\ "estimate" \notin DOMAIN todos[last.todoId]

(***************************************************************************)
(* C7: after a create whose payload supplies only a title, the stored todo *)
(* has every field of the data model: id, title, status ready, estimate    *)
(* null, deadline null and dependentIDs the empty sequence.                *)
(***************************************************************************)
C7_TitleOnlyCreateHasAllDefaults ==
  (/\ last.type = TODO_CREATE
   /\ "todo" \in DOMAIN last
   /\ DOMAIN last.todo = {"title"})
  => /\ last.todoId \in DOMAIN todos
     /\ todos[last.todoId] =
          [_id |-> last.todoId, title |-> last.todo.title, status |-> READY,
           estimate |-> Null, deadline |-> Null, dependentIDs |-> <<>>]

(***************************************************************************)
(* C8: when todo X exists, AddDependent{X, Y} followed by                  *)
(* RemoveDependent{X, Y} leaves todos[X].dependentIDs as it was before the *)
(* two actions.  prevTodos is the snapshot before the AddDependent, todos' *)
(* the one after the RemoveDependent.                                      *)
(***************************************************************************)
AddThenRemove ==
  /\ last.type = TODO_ADD_DEPENDENT
  /\ last'.type = TODO_REMOVE_DEPENDENT
  /\ last'.todoId = last.todoId
  /\ last'.dependentId = last.dependentId
  /\ last.todoId \in DOMAIN prevTodos

C8_AddThenRemoveRestores ==
  [][AddThenRemove =>
       /\ last.todoId \in DOMAIN todos'
       /\ DepsOf(todos'[last.todoId]) = DepsOf(prevTodos[last.todoId])]_vars

\* C8 as amended: the same, for a Y that does not already occur in
\* todos[X].dependentIDs
C8_AddThenRemoveRestoresFresh ==
  [][(/\ AddThenRemove
      /\ last.dependentId
           \notin Range(DepsOf(prevTodos[last.todoId])[2]))
     => /\ last.todoId \in DOMAIN todos'
        /\ DepsOf(todos'[last.todoId]) = DepsOf(prevTodos[last.todoId])]_vars

\* the third action, a RemoveDependent, has just undone an AddDependent:
\* before it the list ended in its only occurrence of Y, now Y is gone
C8_Witness ==
  /\ last.type = TODO_REMOVE_DEPENDENT
  /\ ~threw
  /\ nsteps = 3
  /\ LET before == prevTodos[last.todoId].dependentIDs
         after == todos[last.todoId].dependentIDs
     IN /\ Len(before) = Len(after) + 1
        /\ before = Append(after, last.dependentId)
        /\ last.dependentId \notin Range(after)

(***************************************************************************)
(* C9: on an existing todo X, RemoveDependent{X, Y} removes every          *)
(* occurrence of Y from dependentIDs and keeps the other entries in their  *)
(* order, and AddDependent{X, Y} appends one occurrence of Y at the end,   *)
(* whether or not Y is already there.                                      *)
(***************************************************************************)
C9_RemoveFiltersAddAppends ==
  /\ (last.type = TODO_REMOVE_DEPENDENT /\ last.todoId \in DOMAIN prevTodos)
     => /\ ~threw
        /\ last.todoId \in DOMAIN todos
        /\ DepsOf(todos[last.todoId]) =
             <<TRUE, Without(DepsOf(prevTodos[last.todoId])[2],
                             last.dependentId)>>
  /\ (last.type = TODO_ADD_DEPENDENT /\ last.todoId \in DOMAIN prevTodos)
     => /\ ~threw
        /\ last.todoId \in DOMAIN todos
        /\ DepsOf(todos[last.todoId]) =
             <<TRUE, Append(DepsOf(prevTodos[last.todoId])[2],
                            last.dependentId)>>

(***************************************************************************)
(* C10: an ID becomes a key of todos only by a create with that todoId and *)
(* stops being a key only by a destroy with that todoId; no other action   *)
(* adds or removes a key.                                                  *)
(***************************************************************************)
C10_KeysOnlyByCreateAndDestroy ==
  [][/\ \A X \in (DOMAIN todos') \ (DOMAIN todos) :
          last'.type = TODO_CREATE /\ last'.todoId = X
     /\ \A X \in (DOMAIN todos) \ (DOMAIN todos') :
          last'.type = TODO_DESTROY /\ last'.todoId = X]_vars

(***************************************************************************)
(* C11: the fold is not commutative: when todo X exists, Destroy{X} then   *)
(* SetTitle{X} gives another snapshot than SetTitle{X} then Destroy{X}.    *)
(* prevTodos is the snapshot before the destroy, todos' the one after the  *)
(* set/title that follows it.                                              *)
(***************************************************************************)
DestroyThenSetTitle ==
  /\ last.type = TODO_DESTROY
  /\ last.todoId \in DOMAIN prevTodos
  /\ last'.type = TODO_SET_TITLE
  /\ last'.todoId = last.todoId

C11_FoldNotCommutative ==
  [][DestroyThenSetTitle =>
       [todos |-> todos', events |-> events'] #
         reducer(reducer([todos |-> prevTodos, events |-> prevEvents], last'),
                 last)]_vars

\* an existing X has just been destroyed and one more action can follow:
\* a set/title of X now stores a record under X, where the same set/title
\* before the destroy would have left no X
C11_Witness ==
  /\ last.type = TODO_DESTROY
  /\ last.todoId \in DOMAIN prevTodos
  /\ last.todoId \notin DOMAIN todos
  /\ ~threw
  /\ nsteps < MaxSteps
  /\ \A t \in Titles :
       last.todoId \in
         DOMAIN reducer([todos |-> todos, events |-> events],
                        [type |-> TODO_SET_TITLE, todoId |-> last.todoId,
                         title |-> t]).todos

(***************************************************************************)
(* C12: the wrapper refines the fold: as long as no action of the log has  *)
(* raised, the fields of the AgendaState equal the state that the forEach  *)
(* of the same log has folded from the empty snapshot, and each            *)
(* handleAction that returns has overwritten both fields with the result   *)
(* of reducer on the fields it found.                                      *)
(***************************************************************************)
C12_WrapperRefinesFold ==
  /\ pc = "folding" =>
       StateOrDefault(loadState) = [todos |-> todos, events |-> events]
  /\ (last # NoAction /\ ~threw) =>
       [todos |-> todos, events |-> events] =
         reducer([todos |-> prevTodos, events |-> prevEvents], last)

\* three actions were applied without an error and both todos exist
C12_Witness ==
  /\ nsteps = 3
  /\ pc = "folding"
  /\ DOMAIN todos = TodoIDs
  /\ loadState # UndefinedState
  /\ loadState.todos = todos

(***************************************************************************)
(* C13: Destroy{Y} leaves the dependentIDs of every other todo as they     *)
(* were, Y included; and resolveTodo(id) returns the stored todo when id   *)
(* is a key of todos and undefined ("not found") otherwise, also for a     *)
(* dangling dependent ID.  resolveTodo has no step that raises.            *)
(***************************************************************************)
C13_DanglingTolerated ==
  /\ last.type = TODO_DESTROY =>
       \A k \in (DOMAIN prevTodos) \ {last.todoId} :
         /\ k \in DOMAIN todos
         /\ DepsOf(todos[k]) = DepsOf(prevTodos[k])
  /\ resolved.call = "resolveTodo" =>
       IF resolved.id \in DOMAIN todos
       THEN resolved.result = <<todos[resolved.id]>>
       ELSE resolved.result = Undefined

\* Y was destroyed, another todo still lists Y as a dependent, and the
\* lookup of Y came back undefined
C13_Witness ==
  /\ last.type = TODO_DESTROY
  /\ last.todoId \in DOMAIN prevTodos
  /\ resolved.call = "resolveTodo"
  /\ resolved.id = last.todoId
  /\ resolved.result = Undefined
  /\ \E k \in DOMAIN todos :
       last.todoId \in Range(DepsOf(todos[k])[2])

(***************************************************************************)
(* C14: an action is applied all or nothing: whenever handleAction raised, *)
(* todos and events are exactly what they were before that action.         *)
(***************************************************************************)
C14_AllOrNothing == threw => Unchanged

\* an action raised on a snapshot that holds a todo
C14_Witness ==
  /\ threw
  /\ last.type \in TodoDependentKinds
  /\ DOMAIN prevTodos # {}
  /\ todos = prevTodos

(***************************************************************************)
(* C15: SetStatus{X, s2} on an existing X leaves X with status s2,         *)
(* whatever status s1 it had and whether or not s2 is one of the four      *)
(* statuses, and leaves every other field of X as it was.                  *)
(***************************************************************************)
C15_AnyStatusFromAny ==
  (last.type = TODO_SET_STATUS /\ last.todoId \in DOMAIN prevTodos) =>
    LET X == last.todoId
    IN /\ ~threw
       /\ X \in DOMAIN todos
       /\ DOMAIN todos[X] = (DOMAIN prevTodos[X]) \cup {"status"}
       /\ todos[X].status = last.status
       /\ \A f \in (DOMAIN prevTodos[X]) \ {"status"} :
            todos[X][f] = prevTodos[X][f]

\* a complete todo with a title was set to a value that is no status
C15_Witness ==
  /\ last.type = TODO_SET_STATUS
  /\ last.todoId \in DOMAIN prevTodos
  /\ Get(prevTodos[last.todoId], "status") = <<COMPLETE>>
  /\ "title" \in DOMAIN prevTodos[last.todoId]
  /\ last.status \notin Status
  /\ todos[last.todoId].status = last.status

(***************************************************************************)
(* C16: for every rendered todo that has a status, the status glyph is    *)
(* the one of STATUS_DISPLAY when the status is one of the four statuses;  *)
(* for any other status the rendering fails, or shows a neutral glyph that *)
(* is neither empty nor the text of undefined.                             *)
(***************************************************************************)
C16_GlyphNeverUndefined ==
  pc = "done" =>
    \A id \in DOMAIN items :
      LET status == Get(loadState.todos[id], "status")
          glyph == items[id][2]
      IN status # Undefined =>
           IF status[1] \in Status
           THEN glyph = STATUS_DISPLAY[status[1]]
           ELSE glyph \notin {"undefined", ""}

(***************************************************************************)
(* C17: the record that toJSON projects from a Todo has the id, title,     *)
(* status, estimate and deadline of that Todo; in particular its id is the *)
(* id the Todo was constructed with.  The Todos are constructed from the   *)
(* records of the reachable snapshots.                                     *)
(***************************************************************************)
C17_ProjectionKeepsFields ==
  \A k \in DOMAIN todos, uuid \in UUIDs :
    LET todo == Todo(todos[k], uuid)
        json == toJSON(todo)
    IN /\ json._id = <<todo._id>>
       /\ json.title = <<todo.title>>
       /\ json.status = <<todo.status>>
       /\ json.estimate = <<todo.estimate>>
       /\ json.deadline = <<todo.deadline>>

(***************************************************************************)
(* C19: a todo action with todoId X leaves events and every todos[Y] with  *)
(* Y other than X as they were; a set action on an existing X changes only *)
(* the field it names, and AddDependent and RemoveDependent change only    *)
(* dependentIDs.                                                           *)
(***************************************************************************)
NamedField ==
  (TODO_SET_TITLE :> "title") @@ (TODO_SET_STATUS :> "status")
    @@ (TODO_SET_ESTIMATE :> "estimate") @@ (TODO_SET_DEADLINE :> "deadline")
    @@ (TODO_ADD_DEPENDENT :> "dependentIDs")
    @@ (TODO_REMOVE_DEPENDENT :> "dependentIDs")

C19_TodoActionFrame ==
  last.type \in TodoKinds =>
    /\ events = prevEvents
    /\ (DOMAIN todos) \ {last.todoId} = (DOMAIN prevTodos) \ {last.todoId}
    /\ \A Y \in (DOMAIN prevTodos) \ {last.todoId} : todos[Y] = prevTodos[Y]
    /\ (/\ last.type \in TodoSetKinds \cup TodoDependentKinds
        /\ last.todoId \in DOMAIN prevTodos) =>
         /\ last.todoId \in DOMAIN todos
         /\ \A f \in (DOMAIN todos[last.todoId]
                        \cup DOMAIN prevTodos[last.todoId])
                     \ {NamedField[last.type]} :
              Get(todos[last.todoId], f) = Get(prevTodos[last.todoId], f)

\* an estimate was set on a todo that has other fields, next to another todo
C19_Witness ==
  /\ last.type = TODO_SET_ESTIMATE
  /\ last.todoId \in DOMAIN prevTodos
  /\ "title" \in DOMAIN prevTodos[last.todoId]
  /\ Get(todos[last.todoId], "estimate")
       # Get(prevTodos[last.todoId], "estimate")
  /\ (DOMAIN prevTodos) \ {last.todoId} # {}

(***************************************************************************)
(* C20: loading a log always ends with a well-formed snapshot: for every   *)
(* log, the empty one included, the main routine gets past the fold with   *)
(* a state whose todos and events exist and can be enumerated, and the     *)
(* empty log gives the empty snapshot.                                     *)
(***************************************************************************)
C20_LoadEndsWellFormed ==
  /\ pc # "failed"
  /\ pc = "done" =>
       /\ {"todos", "events"} \subseteq DOMAIN loadState
       /\ DOMAIN items = DOMAIN loadState.todos
       /\ nsteps = 0 => loadState = defaultState

====
